---------------------------- MODULE Spec2Model ----------------------------
(***************************************************************************)
(* Benefits-request portal (otaviopereira10/3M-Ambu).                      *)
(*                                                                         *)
(* The model covers                                                        *)
(*   - the `requests` table of the hosted store,                           *)
(*   - the edge function supabase/functions/request-management (handler),  *)
(*     one invocation per call slot, split at its awaits,                  *)
(*   - the client hook src/hooks/useRequests.ts (fetchRequests,            *)
(*     createRequest) with its cached list, and the dashboard's            *)
(*     filterByPolo.                                                       *)
(*                                                                         *)
(* Text values (rejection reasons, descriptions) are sequences of          *)
(* characters so that trim() and JavaScript truthiness are computed.       *)
(***************************************************************************)
EXTENDS Integers, Sequences, FiniteSets, TLC

\* ------------------------------------------------------------- bounds
\* Requests created in the approval-workflow specification.
MaxRequests == 1

\* Requests created in the repository specification.
MaxListed == 2

\* ------------------------------------------------------------- values
\* null / undefined of an atomic field (string, timestamp, id).
NULL == "NULL"

\* undefined of a text field (a text is a sequence of characters).
NoText == <<"NULL">>

\* JavaScript truthiness of an optional string: undefined and "" are falsy.
Truthy(s) == s # NoText /\ Len(s) > 0

IsWhitespace(ch) == ch = " "

RECURSIVE TrimStart(_)
TrimStart(s) ==
    IF Len(s) = 0 THEN s
    ELSE IF IsWhitespace(Head(s)) THEN TrimStart(Tail(s)) ELSE s

RECURSIVE TrimEnd(_)
TrimEnd(s) ==
    IF Len(s) = 0 THEN s
    ELSE IF IsWhitespace(s[Len(s)]) THEN TrimEnd(SubSeq(s, 1, Len(s) - 1)) ELSE s

\* String.prototype.trim
Trim(s) == TrimEnd(TrimStart(s))

\* Enum polo_type of the store (integrations/supabase/types.ts).
polo_type == {"3M Sumaré", "Manaus", "Ribeirão Preto", "Itapetininga"}

\* The users table: two requesters and two managers.
Users == {"s1", "s2", "g1", "g2"}

UserRow(u) ==
    CASE u = "s1" -> [id |-> "s1", name |-> "s1", email |-> "s1@3m", role |-> "solicitante",
                      department |-> "rh", polo |-> "Manaus"]
      [] u = "s2" -> [id |-> "s2", name |-> "s2", email |-> "s2@3m", role |-> "solicitante",
                      department |-> "ti", polo |-> "3M Sumaré"]
      [] u = "g1" -> [id |-> "g1", name |-> "g1", email |-> "g1@3m", role |-> "gestora",
                      department |-> "rh", polo |-> NULL]
      [] u = "g2" -> [id |-> "g2", name |-> "g2", email |-> "g2@3m", role |-> "gestora",
                      department |-> "rh", polo |-> "Itapetininga"]

\* ------------------------------------------------------------- state
VARIABLES
    requestsTable,   \* the store's requests table: sequence of rows, id = position
    calls,           \* edge function invocations, one per call slot
    profile,         \* useAuth().profile of each client (NULL: not signed in)
    requests,        \* useRequests(): the client's cached list
    loading,         \* useRequests(): loading flag
    error,           \* useRequests(): last fetch error
    form,            \* RequestForm of each client: values, attachments, toasts, errors
    bucket,          \* storage bucket request-attachments: the stored object paths
    dash             \* DashboardGestora of each client: dialog, reason, processing, toast

vars == <<requestsTable, calls, profile, requests, loading, error, form, bucket, dash>>


\* ------------------------------------------------- the requests table
\* Callers of the edge function: the Authorization header carries the session
\* token of a user, or a token that belongs to no session.
Callers == {"g1", "g2", "s1", "invalid"}

\* Role of the user a bearer token belongs to (NULL: no such session).
TokenRole(tok) == IF tok \in Users THEN UserRow(tok).role ELSE NULL

\* Readings of new Date().toISOString().
Times == {"t1", "t2"}

\* Rejection reasons a caller may send: undefined, "", " " and "x".
ReasonTexts == {NoText, <<>>, <<" ">>, <<"x">>}

\* Column default of requests.status (Insert.status is optional, Row.status is not).
DefaultStatus == "pending"

\* Placeholder for "no row" (data: null).
NoRow == [id |-> NULL]

\* Mutant of InsertRow: the insert names the status itself.
InsertRow_StatusApproved(newId, userId, requestData) ==
    [id               |-> newId,
     user_id          |-> userId,
     type             |-> requestData.type,
     description      |-> requestData.description,
     amount           |-> requestData.amount,
     polo             |-> requestData.polo,
     dependents       |-> requestData.dependents,
     attachments      |-> requestData.attachments,
     status           |-> "approved",
     approved_by      |-> NULL,
     approved_at      |-> NULL,
     rejection_reason |-> NoText,
     created_at       |-> newId]

\* .from('requests').insert({user_id, ...requestData}): the row as stored, the
\* columns the insert leaves out taking their defaults.
InsertRow(newId, userId, requestData) ==
    [id               |-> newId,
     user_id          |-> userId,
     type             |-> requestData.type,
     description      |-> requestData.description,
     amount           |-> requestData.amount,
     polo             |-> requestData.polo,
     dependents       |-> requestData.dependents,
     attachments      |-> requestData.attachments,
     status           |-> DefaultStatus,
     approved_by      |-> NULL,
     approved_at      |-> NULL,
     rejection_reason |-> NoText,
     created_at       |-> newId]

\* .update(updateData): the columns named by updateData are overwritten, every
\* other column keeps its value.
ApplyUpdate(row, updateData) ==
    [f \in DOMAIN row |-> IF f \in DOMAIN updateData THEN updateData[f] ELSE row[f]]

\* .eq('id', requestId): the positions of the rows the filter matches.
MatchId(requestId) == {i \in 1..Len(requestsTable) : requestsTable[i].id = requestId}

\* ---------------------------------------- edge function request-management
CallSlots == {"c1"}

\* The invocations of two managers that run at the same time.
RaceSlots == {"c1", "c2"}

\* The manager behind each of the two concurrent invocations.
RaceManager(c) == IF c = "c1" THEN "g1" ELSE "g2"

Methods == {"OPTIONS", "GET", "POST"}

\* Ids a caller may name: those of the rows that can exist, and one that never does.
RequestIds == 1..(MaxRequests + 1)

\* UpdateRequestBody
Bodies == [requestId : RequestIds, status : {"approved", "rejected"},
           rejectionReason : ReasonTexts]

\* A body the handler never reads (preflight, GET).
UnreadBody == [requestId |-> 1, status |-> "approved", rejectionReason |-> NoText]

\* Invocations: a POST with any Authorization header and any body; an OPTIONS or a
\* GET with any Authorization header.
HttpRequests ==
    [method : {"POST"}, authorization : Callers \cup {NULL}, body : Bodies]
    \cup [method : Methods \ {"POST"}, authorization : Callers \cup {NULL},
          body : {UnreadBody}]

NoResponse ==
    [status |-> 0, success |-> FALSE, data |-> NoRow, error |-> NULL, details |-> NULL,
     message |-> NULL]

\* new Response(null, {headers: corsHeaders})
PreflightResponse ==
    [status |-> 200, success |-> FALSE, data |-> NoRow, error |-> NULL, details |-> NULL,
     message |-> NULL]

\* {success: true, data: updatedRequest, message: `Request ${status} successfully`}, 200
SuccessResponse(updatedRequest, status) ==
    [status |-> 200, success |-> TRUE, data |-> updatedRequest, error |-> NULL,
     details |-> NULL, message |-> status]

\* {error: 'Method not allowed'}, 405
MethodNotAllowedResponse ==
    [status |-> 405, success |-> FALSE, data |-> NoRow, error |-> "Method not allowed",
     details |-> NULL, message |-> NULL]

\* Mutant of ErrorResponse: the catch answers with the default status 200.
ErrorResponse_Status200(msg) ==
    [status |-> 200, success |-> FALSE, data |-> NoRow, error |-> msg, details |-> msg,
     message |-> NULL]

\* catch (error): {error: error.message, details: ...}, 500
ErrorResponse(msg) ==
    [status |-> 500, success |-> FALSE, data |-> NoRow, error |-> msg, details |-> msg,
     message |-> NULL]

NoRequest == [method |-> NULL, authorization |-> NULL,
              body |-> [requestId |-> 0, status |-> NULL, rejectionReason |-> NoText]]

NoUpdate == [status |-> NULL, approved_at |-> NULL]

IdleCall ==
    [pc |-> "idle", req |-> NoRequest, updateData |-> NoUpdate, updatedRequest |-> NoRow,
     notifications |-> <<>>, response |-> NoResponse]

\* The slot once the handler has returned: its locals are gone, what is left is the
\* response and the notifications it dispatched.
Returned(response, notifications) ==
    [IdleCall EXCEPT !.pc = "done", !.response = response,
                     !.notifications = notifications]

\* Mutant of UpdateData: the rejection reason is never added.
UpdateData_NoReason(body, now) ==
    [status |-> body.status, approved_at |-> now]

\* const updateData = {status, approved_at: now}; rejection_reason is added only for
\* a rejection that carries a truthy reason.
UpdateData(body, now) ==
    IF body.status = "rejected" /\ Truthy(body.rejectionReason)
    THEN [status |-> body.status, approved_at |-> now,
          rejection_reason |-> body.rejectionReason]
    ELSE [status |-> body.status, approved_at |-> now]

\* Mutant of HandlerStart: the Authorization check comes before the preflight.
HandlerStart_AuthorizationFirst(req, now) ==
    IF req.authorization = NULL
    THEN Returned(ErrorResponse("Missing authorization header"), <<>>)
    ELSE IF req.method = "OPTIONS"
    THEN Returned(PreflightResponse, <<>>)
    ELSE IF req.method = "POST"
    THEN [IdleCall EXCEPT !.pc = "update", !.req = req,
                          !.updateData = UpdateData(req.body, now)]
    ELSE Returned(MethodNotAllowedResponse, <<>>)

\* Mutant of HandlerStart: the Authorization header is not checked.
HandlerStart_NoAuthorizationCheck(req, now) ==
    IF req.method = "OPTIONS"
    THEN Returned(PreflightResponse, <<>>)
    ELSE IF req.method = "POST"
    THEN [IdleCall EXCEPT !.pc = "update", !.req = req,
                          !.updateData = UpdateData(req.body, now)]
    ELSE Returned(MethodNotAllowedResponse, <<>>)

\* handler up to its first await on the store: preflight, the Authorization
\* check, the method dispatch and the construction of updateData.
HandlerStart(req, now) ==
    IF req.method = "OPTIONS"
    THEN Returned(PreflightResponse, <<>>)
    ELSE IF req.authorization = NULL
    THEN Returned(ErrorResponse("Missing authorization header"), <<>>)
    ELSE IF req.method = "POST"
    THEN [IdleCall EXCEPT !.pc = "update", !.req = req,
                          !.updateData = UpdateData(req.body, now)]
    ELSE Returned(MethodNotAllowedResponse, <<>>)

\* An invocation arrives on call slot c.
Serve(c, req, now) ==
    /\ calls[c].pc \in {"idle", "done"}
    /\ calls' = [calls EXCEPT ![c] = HandlerStart(req, now)]
    /\ UNCHANGED <<requestsTable, profile, requests, loading, error, form, bucket, dash>>

\* Mutant of UpdateFails: the update is conditional on the row being pending.
UpdateFails_PendingOnly(call, storeError) ==
    \/ storeError
    \/ Cardinality(MatchId(call.req.body.requestId)) # 1
    \/ \E i \in MatchId(call.req.body.requestId) : requestsTable[i].status # "pending"

\* .update(updateData).eq('id', requestId).select().single(): updateError when the
\* store fails or when not exactly one row matches; no row changes then.
UpdateFails(call, storeError) ==
    storeError \/ Cardinality(MatchId(call.req.body.requestId)) # 1

\* Mutant of UpdatedTable: the update is not restricted to the matched row.
UpdatedTable_AllRows(call, storeError) ==
    IF UpdateFails(call, storeError) THEN requestsTable
    ELSE [i \in 1..Len(requestsTable) |-> ApplyUpdate(requestsTable[i], call.updateData)]

\* The table after the update of call.
UpdatedTable(call, storeError) ==
    IF UpdateFails(call, storeError) THEN requestsTable
    ELSE [i \in 1..Len(requestsTable) |->
            IF i \in MatchId(call.req.body.requestId)
            THEN ApplyUpdate(requestsTable[i], call.updateData)
            ELSE requestsTable[i]]

\* Mutant of AfterUpdate: updateError is not thrown, the handler goes on to the
\* notification.
AfterUpdate_NoThrow(call, storeError) ==
    IF UpdateFails(call, storeError)
    THEN [call EXCEPT !.pc = "notify"]
    ELSE [call EXCEPT !.pc = "notify",
                      !.updatedRequest =
                          UpdatedTable(call, storeError)[CHOOSE i \in MatchId(call.req.body.requestId) : TRUE]]

\* The invocation after the awaited update: it throws on updateError (the catch
\* answers 500), else it goes on to the notification.
AfterUpdate(call, storeError) ==
    IF UpdateFails(call, storeError)
    THEN Returned(ErrorResponse("Failed to update request"), <<>>)
    ELSE [call EXCEPT !.pc = "notify",
                      !.updatedRequest =
                          UpdatedTable(call, storeError)[CHOOSE i \in MatchId(call.req.body.requestId) : TRUE]]

HandlerUpdate(c, storeError) ==
    /\ calls[c].pc = "update"
    /\ requestsTable' = UpdatedTable(calls[c], storeError)
    /\ calls' = [calls EXCEPT ![c] = AfterUpdate(calls[c], storeError)]
    /\ UNCHANGED <<profile, requests, loading, error, form, bucket, dash>>

\* functions.invoke('send-notification-email', {body: {requestId, action, rejectionReason}})
NotificationBody(body) ==
    [requestId |-> body.requestId, action |-> body.status,
     rejectionReason |-> body.rejectionReason]

\* Mutant of AfterNotification: the notification failure is not caught and reaches
\* the handler's catch, which answers 500.
AfterNotification_FailurePropagates(call, emailFails) ==
    IF emailFails
    THEN Returned(ErrorResponse("notification failed"),
                  Append(call.notifications, [body |-> NotificationBody(call.req.body),
                                              failed |-> emailFails]))
    ELSE Returned(SuccessResponse(call.updatedRequest, call.req.body.status),
                  Append(call.notifications, [body |-> NotificationBody(call.req.body),
                                              failed |-> emailFails]))

\* The invocation after the notification try/catch: the failure is logged and
\* swallowed, the answer is the success response.
AfterNotification(call, emailFails) ==
    Returned(SuccessResponse(call.updatedRequest, call.req.body.status),
             Append(call.notifications, [body |-> NotificationBody(call.req.body),
                                         failed |-> emailFails]))

HandlerNotify(c, emailFails) ==
    /\ calls[c].pc = "notify"
    /\ calls' = [calls EXCEPT ![c] = AfterNotification(calls[c], emailFails)]
    /\ UNCHANGED <<requestsTable, profile, requests, loading, error, form, bucket, dash>>

\* ------------------------------------------------- hooks/useRequests.ts
\* A description of ten characters (the form's minimum).
DescriptionText == <<"c", "o", "n", "s", "u", "l", "t", "a", " ", "1">>

\* requestData as RequestForm.onSubmit builds it: type, description, amount (in
\* thousandths of a real), polo (a value of the form's select), dependents,
\* attachments.
Payloads ==
    [type : {"médico"}, description : {DescriptionText}, amount : {15000},
     polo : {"manaus", "sumare"}, dependents : {<<>>}, attachments : {<<>>}]

\* The payloads drawn in the approval-workflow specification.
WorkflowPayloads == {d \in Payloads : d.polo = "manaus"}

\* users!requests_user_id_fkey (name, email, department, polo)
JoinUsers(row) ==
    [f \in DOMAIN row \cup {"users"} |->
        IF f = "users"
        THEN [name       |-> UserRow(row.user_id).name,
              email      |-> UserRow(row.user_id).email,
              department |-> UserRow(row.user_id).department,
              polo       |-> UserRow(row.user_id).polo]
        ELSE row[f]]

\* .order('created_at', {ascending: false})
\* The row at position i is the one with i - 1 newer rows (created_at is unique).
OrderByCreatedAtDesc(rows) ==
    [i \in 1..Cardinality(rows) |->
        CHOOSE r \in rows :
            Cardinality({o \in rows : o.created_at > r.created_at}) = i - 1]

\* Mutant of SelectedRows: the owner filter is missing.
SelectedRows_NoOwnerFilter(viewer) ==
    {requestsTable[i] : i \in 1..Len(requestsTable)}

\* Mutant of SelectedRows: the owner filter is applied whatever the role.
SelectedRows_AlwaysOwnerFilter(viewer) ==
    {r \in {requestsTable[i] : i \in 1..Len(requestsTable)} : r.user_id = viewer}

\* The rows the query of fetchRequests selects for a viewer: a solicitante's query
\* carries .eq('user_id', profile.id), any other role's carries no filter.
SelectedRows(viewer) ==
    LET all == {requestsTable[i] : i \in 1..Len(requestsTable)}
    IN  IF UserRow(viewer).role = "solicitante"
        THEN {r \in all : r.user_id = viewer}
        ELSE all

\* The data fetchRequests stores with setRequests.
FetchResult(viewer) ==
    LET rows == OrderByCreatedAtDesc(SelectedRows(viewer))
    IN  [i \in 1..Len(rows) |-> JoinUsers(rows[i])]

\* fetchRequests of client u against the table tbl' already decided by the caller:
\* no profile, nothing happens; a failing query sets error and keeps the list.
FetchInto(u, fetchError) ==
    IF profile'[u] = NULL
    THEN UNCHANGED <<requests, loading, error>>
    ELSE /\ loading' = [loading EXCEPT ![u] = FALSE]
         /\ IF fetchError
            THEN /\ error' = [error EXCEPT ![u] = "fetch failed"]
                 /\ UNCHANGED requests
            ELSE /\ error' = [error EXCEPT ![u] = NULL]
                 /\ requests' = [requests EXCEPT ![u] = FetchResult(u)']

\* refetch: fetchRequests called by the page.
fetchRequests(u, fetchError) ==
    /\ profile[u] # NULL
    /\ UNCHANGED <<requestsTable, calls, profile, form, bucket, dash>>
    /\ FetchInto(u, fetchError)

\* useEffect on [profile]: the auth context delivers the profile of the signed-in
\* user and the effect fetches the list.
ProfileLoaded(u, fetchError) ==
    /\ profile[u] = NULL
    /\ profile' = [profile EXCEPT ![u] = u]
    /\ UNCHANGED <<requestsTable, calls, form, bucket, dash>>
    /\ FetchInto(u, fetchError)

\* useEffect on [profile]: the profile goes away (sign-out); the effect does nothing
\* and the cached list stays.
ProfileCleared(u) ==
    /\ profile[u] # NULL
    /\ profile' = [profile EXCEPT ![u] = NULL]
    /\ UNCHANGED <<requestsTable, calls, requests, loading, error, form, bucket, dash>>

\* The insert of createRequest has stored the row, and the list is refreshed.
Inserted(u, requestData, fetchError) ==
    /\ requestsTable' = Append(requestsTable,
                               InsertRow(Len(requestsTable) + 1, profile[u], requestData))
    /\ FetchInto(u, fetchError)

\* createRequest: insert, then refresh the list.  Without a profile, or when the
\* insert fails, it throws before anything is stored.
createRequest(u, requestData, insertError, fetchError) ==
    /\ profile[u] # NULL
    /\ ~insertError
    /\ UNCHANGED <<calls, profile, form, bucket, dash>>
    /\ Inserted(u, requestData, fetchError)

\* ---------------------------------------------------- pages/DashboardGestora
\* The ids of the rows of a list.
Ids(requestList) == {requestList[i].id : i \in 1..Len(requestList)}

\* Values of the polo tabs.
PoloTabs == {"todos"} \cup polo_type

\* Mutant of filterByPolo: the filter reads the request's own polo column.
filterByPolo_ByRequestPolo(selectedPolo, requestList) ==
    IF selectedPolo = "todos" THEN requestList
    ELSE SelectSeq(requestList, LAMBDA r : r.polo = selectedPolo)

\* filterByPolo under the selected tab: the rows whose joined owner (users.polo)
\* belongs to the selected polo.
filterByPolo(selectedPolo, requestList) ==
    IF selectedPolo = "todos" THEN requestList
    ELSE SelectSeq(requestList, LAMBDA r : r.users.polo = selectedPolo)

\* groupByPolo: one sub-list per enumerated polo, by the owner's polo.
groupByPolo(requestList) ==
    [polo \in polo_type |-> SelectSeq(requestList, LAMBDA r : r.users.polo = polo)]

\* ------------------------------------------------- components/RequestForm
\* Money is counted in thousandths of a real, so that 90% of a two-decimal salary
\* is exact: a two-decimal amount is a multiple of 10.
\* BASE_SALARY = 2018.36
BASE_SALARY == 2018360

\* SALARY_PERCENTAGE = 0.9, as numerator and denominator.
SALARY_PERCENTAGE == <<9, 10>>

\* Mutant of calculateReimbursement: the floor is not applied.
calculateReimbursement_NoFloor(salary, type) ==
    IF salary <= 0 THEN 0
    ELSE (salary * SALARY_PERCENTAGE[1]) \div SALARY_PERCENTAGE[2]

\* Mutant of calculateReimbursement: the guard on salary <= 0 is missing.
calculateReimbursement_NoGuard(salary, type) ==
    LET maxReimbursable == (salary * SALARY_PERCENTAGE[1]) \div SALARY_PERCENTAGE[2]
    IN  IF maxReimbursable <= BASE_SALARY THEN BASE_SALARY ELSE maxReimbursable

\* calculateReimbursement(salary, type)
calculateReimbursement(salary, type) ==
    IF salary <= 0 THEN 0
    ELSE LET maxReimbursable == (salary * SALARY_PERCENTAGE[1]) \div SALARY_PERCENTAGE[2]
         IN  IF maxReimbursable <= BASE_SALARY THEN BASE_SALARY ELSE maxReimbursable

\* The type enum of formSchema.
request_type == {"psicológico", "médico", "odontológico", "fisioterapia", "outros"}

\* A description of nine characters (one short of the form's minimum).
ShortDescription == <<"c", "o", "n", "s", "u", "l", "t", "a", "s">>

\* defaultValues of useForm (type is left undefined).
DefaultValues ==
    [type |-> NULL, description |-> <<>>, amount |-> 0, polo |-> "", salary |-> 0]

\* Placeholder for "no createRequest call in flight".
NoData == [type |-> NULL]

\* The form as mounted.
EmptyForm ==
    [values |-> DefaultValues, attachments |-> <<>>, uploading |-> FALSE,
     requestData |-> NoData, toasts |-> <<>>, errors |-> {}]

\* Salaries typed into the calculator: -1.00, 0, 0.01, 2000.00, 2242.62, 2242.63
\* (the two-decimal salaries around 2018.36 / 0.9) and 3000.00.
Salaries == {-1000, 0, 10, 2000000, 2242620, 2242630, 3000000}

\* Values the user gives to a field of the form.
FieldValues(field) ==
    CASE field = "type"        -> {"médico", "psicológico"}
      [] field = "description" -> {ShortDescription, DescriptionText}
      [] field = "amount"      -> {0, 150000}
      [] field = "polo"        -> {"", "manaus"}
      [] field = "salary"      -> Salaries

\* field.onChange / form.setValue
setValue(u, field, value) ==
    /\ form' = [form EXCEPT ![u].values[field] = value]
    /\ UNCHANGED <<requestsTable, calls, profile, requests, loading, error, bucket, dash>>

\* const suggestedAmount = calculateReimbursement(watchSalary || 0, watchType || '')
suggestedAmount(f) ==
    calculateReimbursement(f.values.salary,
                           IF f.values.type = NULL THEN "" ELSE f.values.type)

\* {suggestedAmount > 0 && (...)}: the suggestion panel and its button are rendered.
SuggestionShown(f) == suggestedAmount(f) > 0

\* useSuggestedAmount: the button of the suggestion panel.
useSuggestedAmount(u) ==
    /\ SuggestionShown(form[u])
    /\ form' = [form EXCEPT ![u].values.amount = suggestedAmount(form[u]),
                            ![u].toasts = <<"Valor atualizado">>]
    /\ UNCHANGED <<requestsTable, calls, profile, requests, loading, error, bucket, dash>>

\* Selections of the file input (setAttachments).
FileSelections == {<<>>, <<"a.pdf">>, <<"a.pdf", "b.pdf">>}

setAttachments(u, files) ==
    /\ form' = [form EXCEPT ![u].attachments = files]
    /\ UNCHANGED <<requestsTable, calls, profile, requests, loading, error, bucket, dash>>

\* Mutant of SchemaErrors: amount and description are not checked.
SchemaErrors_TypeAndPoloOnly(values) ==
    (IF values.type \in request_type THEN {} ELSE {"type"})
    \cup (IF values.polo # "" THEN {} ELSE {"polo"})

\* zodResolver(formSchema): the fields that fail validation.
SchemaErrors(values) ==
    (IF values.type \in request_type THEN {} ELSE {"type"})
    \cup (IF Len(values.description) >= 10 THEN {} ELSE {"description"})
    \cup (IF values.amount >= 10 THEN {} ELSE {"amount"})
    \cup (IF values.polo # "" THEN {} ELSE {"polo"})
    \cup (IF values.salary >= 0 THEN {} ELSE {"salary"})

\* fileName = `${profile.id}/${Date.now()}-${sanitizedName}`: n stands for the
\* reading of Date.now().
UploadPath(u, n, file) == [owner |-> u, at |-> n, name |-> file]

\* Mutant of StoredByUpload: the loop goes on after the failing upload.
StoredByUpload_SkipsFailed(u, files, failAt) ==
    LET kept == SelectSeq([i \in 1..Len(files) |-> i], LAMBDA i : i # failAt)
    IN  [j \in 1..Len(kept) |-> UploadPath(u, Cardinality(bucket) + j, files[kept[j]])]

\* uploadFiles: the objects it stores, in order.  failAt = k in 1..n: the upload of
\* the k-th file fails (the loop stops there); failAt = 0: none fails.
StoredByUpload(u, files, failAt) ==
    [i \in 1..(IF failAt \in 1..Len(files) THEN failAt - 1 ELSE Len(files)) |->
        UploadPath(u, Cardinality(bucket) + i, files[i])]

\* uploadFiles throws when an upload fails.
UploadThrows(files, failAt) == failAt \in 1..Len(files)


\* requestData of onSubmit (the model's forms carry no dependents).
RequestData(values, uploadedFiles) ==
    [type |-> values.type, description |-> values.description, amount |-> values.amount,
     polo |-> values.polo, dependents |-> <<>>, attachments |-> uploadedFiles]

\* Mutant of AfterUploads: the upload failure is not caught and reaches the outer
\* catch of onSubmit.
AfterUploads_FailureAborts(u, files, failAt) ==
    IF UploadThrows(files, failAt)
    THEN [uploadedFiles |-> <<>>, toasts |-> <<>>, thrown |-> TRUE]
    ELSE [uploadedFiles |-> StoredByUpload(u, files, failAt), toasts |-> <<>>,
          thrown |-> FALSE]

\* onSubmit after the inner try/catch around uploadFiles: uploadedFiles is assigned
\* only when uploadFiles returns; when it throws, the catch shows the warning toast
\* and uploadedFiles keeps its initial [].
AfterUploads(u, files, failAt) ==
    IF UploadThrows(files, failAt)
    THEN [uploadedFiles |-> <<>>, toasts |-> <<"Aviso">>, thrown |-> FALSE]
    ELSE [uploadedFiles |-> StoredByUpload(u, files, failAt), toasts |-> <<>>,
          thrown |-> FALSE]

\* form.handleSubmit(onSubmit): validation, then onSubmit up to its call of
\* createRequest.  The submit button is disabled while the hook is loading or a
\* submission is running.
handleSubmit(u, failAt) ==
    /\ ~loading[u]
    /\ ~form[u].uploading
    /\ failAt \in 0..Len(form[u].attachments)
    /\ UNCHANGED <<requestsTable, calls, profile, requests, loading, error, dash>>
    /\ IF SchemaErrors(form[u].values) # {}
       THEN /\ form' = [form EXCEPT ![u].errors = SchemaErrors(form[u].values)]
            /\ UNCHANGED bucket
       ELSE IF profile[u] = NULL
       THEN /\ form' = [form EXCEPT ![u].errors = {}, ![u].toasts = <<"Erro">>]
            /\ UNCHANGED bucket
       ELSE LET up == AfterUploads(u, form[u].attachments, failAt)
                stored == StoredByUpload(u, form[u].attachments, failAt)
            IN  /\ bucket' = bucket \cup {stored[i] : i \in 1..Len(stored)}
                /\ IF up.thrown
                   THEN form' = [form EXCEPT ![u].errors = {},
                                             ![u].toasts = up.toasts \o <<"Erro">>]
                   ELSE form' = [form EXCEPT
                                    ![u].errors = {},
                                    ![u].toasts = up.toasts,
                                    ![u].uploading = TRUE,
                                    ![u].requestData =
                                        RequestData(form[u].values, up.uploadedFiles)]

\* onSubmit from the return of createRequest: on success the form is reset and the
\* success toast shown; when createRequest throws, the outer catch shows the error.
onSubmitCreated(u, insertError, fetchError) ==
    /\ form[u].uploading
    /\ UNCHANGED <<calls, profile, bucket, dash>>
    /\ IF profile[u] = NULL \/ insertError
       THEN /\ form' = [form EXCEPT ![u].uploading = FALSE,
                                    ![u].requestData = NoData,
                                    ![u].toasts = form[u].toasts \o <<"Erro">>]
            /\ UNCHANGED <<requestsTable, requests, loading, error>>
       ELSE /\ Inserted(u, form[u].requestData, fetchError)
            /\ form' = [form EXCEPT ![u] =
                            [EmptyForm EXCEPT !.toasts = form[u].toasts \o <<"Sucesso!">>]]

\* ------------------------------------------- pages/DashboardGestora: decisions
\* The dashboard as mounted: no dialog (selectedRequest null is 0), an empty
\* reason, not processing, no handler awaiting, no toast (<<>>).
EmptyDash ==
    [selectedRequest |-> 0, rejectionReason |-> <<>>, processing |-> FALSE,
     action |-> NULL, toast |-> <<>>]

\* Texts typed into the reason textarea: "" and "x".
DialogReasons == {<<>>, <<"x">>}

\* The edge function invocation that serves a client's call.
ClientSlot(u) == CHOOSE c \in RaceSlots : RaceManager(c) = u

\* supabase.auth.getSession(): a session exists while the user is signed in.
HasSession(u) == profile[u] # NULL

\* functions.invoke('request-management', {body, headers: {Authorization}})
InvokeRequest(u, requestId, status, rejectionReason) ==
    [method |-> "POST", authorization |-> u,
     body |-> [requestId |-> requestId, status |-> status,
               rejectionReason |-> rejectionReason]]

\* Mutant of InvokeError: a non-2xx answer is not reported as an error.
InvokeError_Never(response) == FALSE

\* functions.invoke reports an error for an answer outside 2xx.
InvokeError(response) == response.status \notin 200..299

\* handleViewRequest: the 'Ver' button of a pending row or a click on a processed
\* row; the dialog is modal, so rows are reachable only while it is closed.
handleViewRequest(u, requestId) ==
    /\ dash[u].selectedRequest = 0
    /\ requestId \in Ids(requests[u])
    /\ dash' = [dash EXCEPT ![u].selectedRequest = requestId]
    /\ UNCHANGED <<requestsTable, calls, profile, requests, loading, error, form, bucket>>

\* onChange of the reason textarea in the dialog.
setRejectionReason(u, text) ==
    /\ dash[u].selectedRequest # 0
    /\ dash' = [dash EXCEPT ![u].rejectionReason = text]
    /\ UNCHANGED <<requestsTable, calls, profile, requests, loading, error, form, bucket>>

\* onOpenChange(false): the dialog is dismissed (close icon, Escape, overlay).
onOpenChange(u) ==
    /\ dash[u].selectedRequest # 0
    /\ dash' = [dash EXCEPT ![u].selectedRequest = 0, ![u].rejectionReason = <<>>]
    /\ UNCHANGED <<requestsTable, calls, profile, requests, loading, error, form, bucket>>

\* The 'Fechar' button of the dialog: setSelectedRequest(null).
Fechar(u) ==
    /\ dash[u].selectedRequest # 0
    /\ dash' = [dash EXCEPT ![u].selectedRequest = 0]
    /\ UNCHANGED <<requestsTable, calls, profile, requests, loading, error, form, bucket>>

\* Mutant of DecisionEnabled: the decision buttons are never disabled.
DecisionEnabled_Always(d) == TRUE

\* disabled={processing} on the Aprovar and Recusar buttons.
DecisionEnabled(d) == ~d.processing

\* The requests whose 'Aprovar' button the page shows: the dialog's request, or,
\* with the dialog closed, the pending rows of the list.
Approvable(u) ==
    IF dash[u].selectedRequest # 0 THEN {dash[u].selectedRequest}
    ELSE {requests[u][i].id : i \in {j \in 1..Len(requests[u]) :
                                         requests[u][j].status = "pending"}}

\* A decision handler up to the await of the edge function: setProcessing(true),
\* then updateRequestStatus; without a session it throws at once, the handler's
\* catch shows the error toast and its finally clears processing.
StartDecision(u, requestId, status, rejectionReason, now) ==
    /\ UNCHANGED <<requestsTable, profile, requests, loading, error, form, bucket>>
    /\ IF ~HasSession(u)
       THEN /\ dash' = [dash EXCEPT ![u].processing = FALSE,
                                    ![u].toast = <<"Erro", status>>]
            /\ UNCHANGED calls
       ELSE /\ dash' = [dash EXCEPT ![u].processing = TRUE, ![u].action = status]
            /\ calls' = [calls EXCEPT ![ClientSlot(u)] =
                            HandlerStart(InvokeRequest(u, requestId, status,
                                                       rejectionReason), now)]

\* handleApprove(requestId): no rejection reason is passed.
handleApprove(u, requestId, now) ==
    /\ DecisionEnabled(dash[u])
    /\ requestId \in Approvable(u)
    /\ StartDecision(u, requestId, "approved", NoText, now)

\* handleReject(selectedRequest.id, rejectionReason): a blank reason is refused
\* with a toast before anything is sent.
handleReject(u, now) ==
    /\ DecisionEnabled(dash[u])
    /\ dash[u].selectedRequest # 0
    /\ IF Len(Trim(dash[u].rejectionReason)) = 0
       THEN /\ dash' = [dash EXCEPT ![u].toast = <<"Motivo obrigatório">>]
            /\ UNCHANGED <<requestsTable, calls, profile, requests, loading, error,
                           form, bucket>>
       ELSE StartDecision(u, dash[u].selectedRequest, "rejected",
                          dash[u].rejectionReason, now)

\* Mutant of AfterDecision: processing is cleared at the end of the try block, not
\* in a finally.
AfterDecision_NoFinally(d, failed) ==
    IF failed
    THEN [d EXCEPT !.action = NULL, !.toast = <<"Erro", d.action>>]
    ELSE IF d.action = "rejected"
    THEN [d EXCEPT !.processing = FALSE, !.action = NULL, !.toast = <<"Sucesso", d.action>>,
                   !.selectedRequest = 0, !.rejectionReason = <<>>]
    ELSE [d EXCEPT !.processing = FALSE, !.action = NULL, !.toast = <<"Sucesso", d.action>>]

\* The dashboard once the awaited updateRequestStatus has settled: the success or
\* error toast, after a rejection the dialog closed and the reason cleared, and in
\* the finally processing cleared.
AfterDecision(d, failed) ==
    IF failed
    THEN [d EXCEPT !.processing = FALSE, !.action = NULL, !.toast = <<"Erro", d.action>>]
    ELSE IF d.action = "rejected"
    THEN [d EXCEPT !.processing = FALSE, !.action = NULL, !.toast = <<"Sucesso", d.action>>,
                   !.selectedRequest = 0, !.rejectionReason = <<>>]
    ELSE [d EXCEPT !.processing = FALSE, !.action = NULL, !.toast = <<"Sucesso", d.action>>]

\* updateRequestStatus from the answer of the edge function: on an error it
\* rethrows; on success it fetches the list and resolves.  The decision handler
\* then finishes.
updateRequestStatusReturns(u, fetchError) ==
    /\ dash[u].action # NULL
    /\ calls[ClientSlot(u)].pc = "done"
    /\ calls' = [calls EXCEPT ![ClientSlot(u)] = IdleCall]
    /\ UNCHANGED <<requestsTable, profile, form, bucket>>
    /\ dash' = [dash EXCEPT ![u] =
                    AfterDecision(dash[u], InvokeError(calls[ClientSlot(u)].response))]
    /\ IF InvokeError(calls[ClientSlot(u)].response)
       THEN UNCHANGED <<requests, loading, error>>
       ELSE FetchInto(u, fetchError)

\* ------------------------------------------------------- specifications
Init ==
    /\ requestsTable = <<>>
    /\ calls = [c \in CallSlots \cup RaceSlots |-> IdleCall]
    /\ profile = [u \in Users |-> NULL]
    /\ requests = [u \in Users |-> <<>>]
    /\ loading = [u \in Users |-> TRUE]
    /\ error = [u \in Users |-> NULL]
    /\ form = [u \in Users |-> EmptyForm]
    /\ bucket = {}
    /\ dash = [u \in Users |-> EmptyDash]

\* The approval workflow: requests are created by a requester, and the edge
\* function is invoked with any method, any Authorization header and any body.
Next ==
    \/ ProfileLoaded("s1", FALSE)
    \/ /\ Len(requestsTable) < MaxRequests
       /\ \E d \in WorkflowPayloads : createRequest("s1", d, FALSE, FALSE)
    \/ \E c \in CallSlots, req \in HttpRequests, now \in Times : Serve(c, req, now)
    \/ \E c \in CallSlots, se \in BOOLEAN : HandlerUpdate(c, se)
    \/ \E c \in CallSlots, ef \in BOOLEAN : HandlerNotify(c, ef)

Spec == Init /\ [][Next]_vars

\* The invocations the dashboard makes for a signed-in manager: handleApprove sends
\* no reason, handleReject sends a reason that is not blank.
ManagerRequests ==
    {r \in HttpRequests :
        /\ r.method = "POST"
        /\ TokenRole(r.authorization) = "gestora"
        /\ r.body.status = "approved" => r.body.rejectionReason = NoText
        /\ r.body.status = "rejected" => Len(Trim(r.body.rejectionReason)) > 0
        /\ r.body.status = "rejected" => r.body.rejectionReason # NoText}

\* The approval workflow as managers drive it: every invocation is a manager's
\* well-formed approve or reject.
NextManagers ==
    \/ ProfileLoaded("s1", FALSE)
    \/ /\ Len(requestsTable) < MaxRequests
       /\ \E d \in WorkflowPayloads : createRequest("s1", d, FALSE, FALSE)
    \/ \E c \in CallSlots, req \in ManagerRequests, now \in Times : Serve(c, req, now)
    \/ \E c \in CallSlots, se \in BOOLEAN : HandlerUpdate(c, se)
    \/ \E c \in CallSlots, ef \in BOOLEAN : HandlerNotify(c, ef)

SpecManagers == Init /\ [][NextManagers]_vars

\* The users whose browsers the repository specification follows.
RepoClients == {"s1", "s2", "g1"}

\* The request repository: two requesters and a manager sign in and out, create
\* requests and fetch the list; queries and inserts may fail.
NextRepo ==
    \/ \E u \in RepoClients, fe \in BOOLEAN : ProfileLoaded(u, fe)
    \/ \E u \in RepoClients : ProfileCleared(u)
    \/ \E u \in RepoClients, fe \in BOOLEAN : fetchRequests(u, fe)
    \/ /\ Len(requestsTable) < MaxListed
       /\ \E u \in RepoClients, d \in Payloads, ie \in BOOLEAN, fe \in BOOLEAN :
              createRequest(u, d, ie, fe)

SpecRepo == Init /\ [][NextRepo]_vars

\* Requests created in the concurrent-managers specification.
MaxRaced == 2

\* Two managers decide at the same time: each makes one well-formed call, on any
\* request, while the store is available.
NextRace ==
    \/ ProfileLoaded("s1", FALSE)
    \/ /\ Len(requestsTable) < MaxRaced
       /\ \E d \in WorkflowPayloads : createRequest("s1", d, FALSE, FALSE)
    \/ \E c \in RaceSlots, req \in ManagerRequests, now \in Times :
           /\ calls[c].pc = "idle"
           /\ req.authorization = RaceManager(c)
           /\ Serve(c, req, now)
    \/ \E c \in RaceSlots : HandlerUpdate(c, FALSE)
    \/ \E c \in RaceSlots, ef \in BOOLEAN : HandlerNotify(c, ef)

SpecRace == Init /\ [][NextRace]_vars

\* The fields of the form the calculator panel reads and writes.
CalcFields == {"salary", "type", "amount"}

\* The reimbursement calculator: the user types salaries, picks types and amounts
\* and presses the suggestion button.
NextCalc ==
    \/ \E field \in CalcFields : \E v \in FieldValues(field) : setValue("s1", field, v)
    \/ useSuggestedAmount("s1")

SpecCalc == Init /\ [][NextCalc]_vars

\* Requests created in the submission specification.
MaxSubmitted == 1

\* Objects in the bucket beyond which no further submission is followed.
MaxStored == 2

\* The fields of the form a submission sends.
SubmitFields == {"type", "description", "amount", "polo"}

\* The request form: the user signs in, fills the form, selects files and
\* submits; uploads and the insert may fail.
NextForm ==
    \/ ProfileLoaded("s1", FALSE)
    \/ \E field \in SubmitFields : \E v \in FieldValues(field) :
           ~form["s1"].uploading /\ setValue("s1", field, v)
    \/ \E files \in FileSelections :
           ~form["s1"].uploading /\ setAttachments("s1", files)
    \/ /\ Len(requestsTable) < MaxSubmitted
       /\ Cardinality(bucket) < MaxStored
       /\ \E failAt \in 0..Len(form["s1"].attachments) : handleSubmit("s1", failAt)
    \/ \E ie \in BOOLEAN : onSubmitCreated("s1", ie, FALSE)

SpecForm == Init /\ [][NextForm]_vars

\* Requests created in the dashboard specification.
MaxDecided == 1

\* The manager's dashboard: a requester creates requests; a manager signs in and
\* out (the button is behind the modal dialog), opens and closes the dialog, types
\* reasons, approves and rejects; the edge function serves her calls, and an
\* anonymous client POSTs without Authorization.
NextDash ==
    \/ ProfileLoaded("s1", FALSE)
    \/ /\ Len(requestsTable) < MaxDecided
       /\ \E d \in WorkflowPayloads : createRequest("s1", d, FALSE, FALSE)
    \/ ProfileLoaded("g1", FALSE)
    \/ dash["g1"].selectedRequest = 0 /\ ProfileCleared("g1")
    \/ \E id \in 1..MaxDecided : handleViewRequest("g1", id)
    \/ \E text \in DialogReasons : setRejectionReason("g1", text)
    \/ onOpenChange("g1")
    \/ Fechar("g1")
    \/ \E id \in 1..MaxDecided : handleApprove("g1", id, "t1")
    \/ handleReject("g1", "t2")
    \/ \E req \in HttpRequests :
           /\ req.method = "POST"
           /\ req.authorization = NULL
           /\ req.body = UnreadBody
           /\ Serve("c2", req, "t1")
    \/ \E se \in BOOLEAN : HandlerUpdate("c1", se)
    \/ HandlerNotify("c1", FALSE)
    \/ \E fe \in BOOLEAN : updateRequestStatusReturns("g1", fe)

SpecDash == Init /\ [][NextDash]_vars

\* Requests created in the dialog specification.
MaxViewed == 2

\* The details dialog: with several requests listed, a signed-in manager opens
\* and closes the dialog, types reasons in the dialog of the first request only,
\* approves and rejects, the store and the list fetches being available.
NextDialog ==
    \/ ProfileLoaded("s1", FALSE)
    \/ /\ Len(requestsTable) < MaxViewed
       /\ \E d \in WorkflowPayloads : createRequest("s1", d, FALSE, FALSE)
    \/ ProfileLoaded("g1", FALSE)
    \/ \E id \in 1..MaxViewed : handleViewRequest("g1", id)
    \/ \E text \in DialogReasons :
           dash["g1"].selectedRequest = 1 /\ setRejectionReason("g1", text)
    \/ onOpenChange("g1")
    \/ Fechar("g1")
    \/ \E id \in 1..MaxViewed : handleApprove("g1", id, "t1")
    \/ handleReject("g1", "t2")
    \/ HandlerUpdate("c1", FALSE)
    \/ HandlerNotify("c1", FALSE)
    \/ updateRequestStatusReturns("g1", FALSE)

SpecDialog == Init /\ [][NextDialog]_vars

\* Requests created in the busy-flags specification.
MaxBusy == 1

\* The values of a field that pass the field's validation.
ValidFieldValues(field) ==
    {v \in FieldValues(field) : field \notin SchemaErrors([DefaultValues EXCEPT ![field] = v])}

\* The busy flags: a requester fills the form with valid values and submits it, a
\* manager approves and rejects; the insert and the store update may fail.
NextBusy ==
    \/ ProfileLoaded("s1", FALSE)
    \/ ProfileLoaded("g1", FALSE)
    \/ \E field \in SubmitFields : \E v \in ValidFieldValues(field) :
           ~form["s1"].uploading /\ setValue("s1", field, v)
    \/ /\ Len(requestsTable) < MaxBusy
       /\ handleSubmit("s1", 0)
    \/ \E ie \in BOOLEAN : onSubmitCreated("s1", ie, FALSE)
    \/ \E id \in 1..MaxBusy : handleViewRequest("g1", id)
    \/ \E text \in DialogReasons : setRejectionReason("g1", text)
    \/ onOpenChange("g1")
    \/ \E id \in 1..MaxBusy : handleApprove("g1", id, "t1")
    \/ handleReject("g1", "t2")
    \/ \E se \in BOOLEAN : HandlerUpdate("c1", se)
    \/ HandlerNotify("c1", FALSE)
    \/ updateRequestStatusReturns("g1", FALSE)

\* The backend calls return: the edge function runs to its answer, the client
\* receives it, and createRequest settles.
SpecBusy ==
    /\ Init
    /\ [][NextBusy]_vars
    /\ WF_vars(\E se \in BOOLEAN : HandlerUpdate("c1", se))
    /\ WF_vars(HandlerNotify("c1", FALSE))
    /\ WF_vars(updateRequestStatusReturns("g1", FALSE))
    /\ WF_vars(\E ie \in BOOLEAN : onSubmitCreated("s1", ie, FALSE))

\* ================================================================ claims
\* A commit of call slot c has happened and the handler has not yet returned.
Committed(c) == calls[c].pc = "notify"

\* A reason that is missing, empty or whitespace-only.
BlankReason(r) == r = NoText \/ Len(Trim(r)) = 0

\* C1: once a request's stored status is approved or rejected, no later step
\* changes it: status is mutated at most once, from pending.
C1_StatusMonotone ==
    [][\A i \in 1..Len(requestsTable) :
          requestsTable[i].status # "pending"
              => requestsTable'[i].status = requestsTable[i].status]_vars

\* C2: a rejection whose reason is missing, empty or whitespace-only is refused
\* before any mutation: no such call ever commits an update.
C2_BlankRejectionRefused ==
    \A c \in CallSlots :
        Committed(c) =>
            ~(calls[c].req.body.status = "rejected"
              /\ BlankReason(calls[c].req.body.rejectionReason))

\* C3: after a successful approval the stored request (the row the update
\* returns) has status approved, a non-null approved_at and a null
\* rejection_reason, whatever transitions preceded it.
C3_ApprovalPostcondition ==
    \A c \in CallSlots :
        (Committed(c) /\ calls[c].req.body.status = "approved") =>
            /\ calls[c].updatedRequest.status = "approved"
            /\ calls[c].updatedRequest.approved_at # NULL
            /\ calls[c].updatedRequest.rejection_reason = NoText

\* C4: every approved or rejected request has an approver recorded, and every
\* pending request has none.
C4_ApproverRecorded ==
    \A i \in 1..Len(requestsTable) :
        /\ requestsTable[i].status \in {"approved", "rejected"}
               => requestsTable[i].approved_by # NULL
        /\ requestsTable[i].status = "pending" => requestsTable[i].approved_by = NULL

\* C5: a request is only ever changed on behalf of a caller holding the gestora
\* role: every call that commits an update carries a manager's session token.
C5_OnlyManagersMutate ==
    \A c \in CallSlots :
        Committed(c) => TokenRole(calls[c].req.authorization) = "gestora"

\* C6: once the update has committed, the notification step, whether the
\* notification fails or not, leaves the table unchanged with the request at
\* its new status, and the caller receives HTTP 200 with success = true.
C6_NotificationOutcomeIgnored ==
    [][\A c \in CallSlots :
          (calls[c].pc = "notify" /\ calls'[c].pc # "notify") =>
              /\ requestsTable' = requestsTable
              /\ \A i \in MatchId(calls[c].req.body.requestId) :
                     requestsTable'[i].status = calls[c].req.body.status
              /\ calls'[c].pc = "done"
              /\ calls'[c].response.status = 200
              /\ calls'[c].response.success
              /\ calls'[c].response.data = calls[c].updatedRequest]_vars

\* C6 witness: a call returned success although its notification failed, and the
\* row it updated holds the new status.
C6_Witness ==
    \E c \in CallSlots :
        /\ calls[c].pc = "done"
        /\ calls[c].response.success
        /\ Len(calls[c].notifications) = 1
        /\ calls[c].notifications[1].failed
        /\ \E i \in 1..Len(requestsTable) :
               /\ requestsTable[i].id = calls[c].notifications[1].body.requestId
               /\ requestsTable[i].status = calls[c].notifications[1].body.action

\* C7: a call attempts the notification at most once, and only after its update
\* has committed: a call with a notification returned the updated row, and a call
\* still waiting for the store, or whose update failed, has none.
C7_NotifyAtMostOnceAfterCommit ==
    \A c \in CallSlots :
        /\ Len(calls[c].notifications) <= 1
        /\ Len(calls[c].notifications) = 1 =>
               /\ calls[c].pc = "done"
               /\ calls[c].response.success
               /\ calls[c].response.data # NoRow
               /\ calls[c].response.data.id = calls[c].notifications[1].body.requestId
               /\ calls[c].response.data.status = calls[c].notifications[1].body.action
        /\ (calls[c].pc = "done" /\ ~calls[c].response.success) =>
               calls[c].notifications = <<>>

\* C7 witness: a call whose update committed has returned with exactly one
\* notification attempted.
C7_Witness ==
    \E c \in CallSlots :
        /\ calls[c].pc = "done"
        /\ calls[c].response.success
        /\ calls[c].response.data # NoRow
        /\ Len(calls[c].notifications) = 1

\* C8: every request create stores has status pending when it is stored.
C8_CreatedPending ==
    [][Len(requestsTable') > Len(requestsTable) =>
          requestsTable'[Len(requestsTable')].status = "pending"]_vars

\* C8 witness: requests of two different payloads have been created.
C8_Witness ==
    /\ Len(requestsTable) = 2
    /\ requestsTable[1].polo # requestsTable[2].polo
    /\ requestsTable[2].status = "pending"

\* C9: the list cached for a solicitante never holds a request of another user.
C9_RequesterSeesOwnOnly ==
    \A u \in Users :
        UserRow(u).role = "solicitante" =>
            \A i \in 1..Len(requests[u]) : requests[u][i].user_id = u

\* C9 witness: a solicitante fetched a list of their own request after another
\* user's request was stored.
C9_Witness ==
    /\ Len(requestsTable) = 2
    /\ requestsTable[1].user_id = "s2"
    /\ requestsTable[2].user_id = "s1"
    /\ Len(requests["s1"]) = 1
    /\ requests["s1"][1].id = 2

\* C10: whenever a gestora's list is fetched, the unfiltered ('todos') list holds
\* every request of the table, whoever owns it and whatever its polo.
C10_ManagerSeesAll ==
    [][\A u \in Users :
          (UserRow(u).role = "gestora" /\ requests'[u] # requests[u]) =>
              /\ Len(filterByPolo("todos", requests'[u])) = Len(requestsTable')
              /\ \A i \in 1..Len(requestsTable') :
                     \E j \in 1..Len(requests'[u]) :
                         /\ filterByPolo("todos", requests'[u])[j].id = requestsTable'[i].id
                         /\ filterByPolo("todos", requests'[u])[j].user_id
                                = requestsTable'[i].user_id]_vars

\* C10 witness: the manager's list holds two requests of different owners and
\* different polos.
C10_Witness ==
    /\ Len(requests["g1"]) = 2
    /\ requests["g1"][1].user_id # requests["g1"][2].user_id
    /\ requests["g1"][1].polo # requests["g1"][2].polo
    /\ requests["g1"][1].users.polo # requests["g1"][2].users.polo

\* C11: under a specific polo tab the manager's list holds exactly the requests
\* whose own polo column (request.polo, as stored at creation) is that polo.
C11_FilterByRequestPolo ==
    \A u \in Users :
        UserRow(u).role = "gestora" =>
            \A p \in polo_type :
                Ids(filterByPolo(p, requests[u]))
                    = {requests[u][i].id : i \in {j \in 1..Len(requests[u]) :
                                                      requests[u][j].polo = p}}

C14_NoSuggestionWithoutSalary ==
    \A u \in Users :
        form[u].values.salary <= 0 =>
            /\ suggestedAmount(form[u]) = 0
            /\ ~SuggestionShown(form[u])
            /\ \A t \in request_type \cup {""} :
                   calculateReimbursement(form[u].values.salary, t) = 0

\* C14 witness: a negative salary has been typed after a suggestion was applied.
C14_Witness ==
    \E u \in Users :
        /\ form[u].values.salary < 0
        /\ form[u].values.amount = BASE_SALARY

\* C15: when a submission calls createRequest, the attachments it passes are
\* exactly the objects its uploads stored (the k-1 files uploaded before a failing
\* k-th), and the request is stored with those attachments.
C15_AttachmentsAreStoredFiles ==
    [][/\ \A u \in Users :
             (~form[u].uploading /\ form'[u].uploading) =>
                 /\ Len(form'[u].requestData.attachments) = Cardinality(bucket' \ bucket)
                 /\ \A i \in 1..Len(form'[u].requestData.attachments) :
                        form'[u].requestData.attachments[i] \in bucket' \ bucket
       /\ \A u \in Users :
             (form[u].uploading /\ Len(requestsTable') > Len(requestsTable)) =>
                 requestsTable'[Len(requestsTable')].attachments
                     = form[u].requestData.attachments]_vars

\* C16: whenever a file upload fails during a submission (fewer objects are
\* stored than files were selected), createRequest is still called with the
\* form's values and the warning toast is shown.
C16_UploadFailureStillCreates ==
    [][\A u \in Users :
          (/\ ~form[u].uploading
           /\ form'[u] # form[u]
           /\ form'[u].values = form[u].values
           /\ form'[u].attachments = form[u].attachments
           /\ SchemaErrors(form[u].values) = {}
           /\ profile[u] # NULL
           /\ Cardinality(bucket' \ bucket) < Len(form[u].attachments))
          => /\ form'[u].uploading
             /\ form'[u].requestData # NoData
             /\ form'[u].requestData.description = form[u].values.description
             /\ form'[u].requestData.amount = form[u].values.amount
             /\ form'[u].toasts = <<"Aviso">>]_vars

\* C16 witness: a request has been created by a submission whose second upload
\* failed: the first file is stored, the warning and then the success toast shown.
C16_Witness ==
    \E u \in Users :
        /\ Len(requestsTable) = 1
        /\ requestsTable[1].user_id = u
        /\ Cardinality(bucket) = 1
        /\ form[u].toasts = <<"Aviso", "Sucesso!">>

\* C17: when two managers' calls on the same request run at the same time,
\* neither is refused: each update on an existing request commits, the stored
\* status becomes its target whatever the other call did, and no other step
\* changes a status, so the stored status is that of the last committed update.
C17_LastWriteWins ==
    [][/\ \A c \in RaceSlots :
             (/\ calls[c].pc = "update"
              /\ calls'[c].pc # "update"
              /\ MatchId(calls[c].req.body.requestId) # {})
             => /\ calls'[c].pc = "notify"
                /\ calls'[c].updatedRequest.status = calls[c].req.body.status
                /\ \A i \in MatchId(calls[c].req.body.requestId) :
                       requestsTable'[i].status = calls[c].req.body.status
       /\ (\A c \in RaceSlots : ~(calls[c].pc = "update" /\ calls'[c].pc = "notify"))
             => \A i \in 1..Len(requestsTable) :
                    requestsTable'[i].status = requestsTable[i].status]_vars

\* C17 witness: both managers' updates of the same request have committed with
\* different targets while both calls are still running, and the stored status is
\* the second manager's.
C17_Witness ==
    /\ calls["c1"].pc = "notify"
    /\ calls["c2"].pc = "notify"
    /\ calls["c1"].updatedRequest.id = calls["c2"].updatedRequest.id
    /\ calls["c1"].updatedRequest.status = "approved"
    /\ calls["c2"].updatedRequest.status = "rejected"
    /\ requestsTable[calls["c2"].updatedRequest.id].status = "rejected"

\* C18: when the list operation runs for a viewer without a profile (the effect
\* on [profile] after the profile went away), an access error is reported.
C18_UnauthenticatedListFails ==
    [][\A u \in Users :
          (profile[u] # NULL /\ profile'[u] = NULL) => error'[u] # NULL]_vars

\* C19: a submission whose payload has no type, a description shorter than 10
\* characters, an amount not greater than 0 or no polo reports validation errors,
\* calls no createRequest and stores nothing; every request stored has a type, a
\* description of 10 characters or more, an amount above 0 and a polo.
C19_InvalidPayloadRefused ==
    [][/\ \A u \in Users :
             (~form[u].uploading /\ form'[u].uploading) =>
                 /\ form[u].values.type # NULL
                 /\ Len(form[u].values.description) >= 10
                 /\ form[u].values.amount > 0
                 /\ form[u].values.polo # ""
       /\ \A u \in Users :
             (/\ form'[u].errors # form[u].errors
              /\ \/ form[u].values.type = NULL
                 \/ Len(form[u].values.description) < 10
                 \/ form[u].values.amount <= 0
                 \/ form[u].values.polo = "")
             => /\ form'[u].errors # {}
                /\ ~form'[u].uploading
                /\ requestsTable' = requestsTable
       /\ Len(requestsTable') > Len(requestsTable) =>
             LET row == requestsTable'[Len(requestsTable')]
             IN  /\ row.type # NULL
                 /\ Len(row.description) >= 10
                 /\ row.amount > 0
                 /\ row.polo # ""]_vars

\* C19 witness: a signed-in user's submission was refused with validation errors
\* on the description and the amount only, and nothing is stored.
C19_Witness ==
    \E u \in Users :
        /\ profile[u] # NULL
        /\ form[u].errors = {"description", "amount"}
        /\ requestsTable = <<>>

\* C20: every step keeps every stored request, with its id, owner, amount,
\* description, type, polo, dependents and attachments; a committing update
\* leaves every request other than the one it names unchanged.
C20_TransitionFrame ==
    [][/\ Len(requestsTable') >= Len(requestsTable)
       /\ \A i \in 1..Len(requestsTable) :
             \A f \in {"id", "user_id", "amount", "description", "type", "polo",
                        "dependents", "attachments", "created_at"} :
                 requestsTable'[i][f] = requestsTable[i][f]
       /\ \A c \in RaceSlots :
             (calls[c].pc = "update" /\ calls'[c].pc # "update") =>
                 \A i \in 1..Len(requestsTable) :
                     requestsTable[i].id # calls[c].req.body.requestId
                         => requestsTable'[i] = requestsTable[i]]_vars

\* C20 witness: of two stored requests one has been approved and then rejected,
\* the other is still pending.
C20_Witness ==
    /\ Len(requestsTable) = 2
    /\ \E i, j \in 1..2 :
           /\ requestsTable[i].status = "rejected"
           /\ requestsTable[i].approved_at = "t2"
           /\ requestsTable[j].status = "pending"
    /\ \E c \in RaceSlots : calls[c].pc = "done" /\ calls[c].response.message = "approved"

\* C21: once a rejection with a non-empty reason r has committed, the stored
\* request and the row the update returns have status rejected,
\* rejection_reason = r and a non-null approved_at.
C21_RejectionPostcondition ==
    \A c \in CallSlots :
        (/\ Committed(c)
         /\ calls[c].req.body.status = "rejected"
         /\ Truthy(calls[c].req.body.rejectionReason))
        => /\ calls[c].updatedRequest.status = "rejected"
           /\ calls[c].updatedRequest.rejection_reason = calls[c].req.body.rejectionReason
           /\ calls[c].updatedRequest.approved_at # NULL
           /\ \A i \in MatchId(calls[c].req.body.requestId) :
                  requestsTable[i] = calls[c].updatedRequest

\* C21 witness: a manager's rejection with the reason "x" has committed.
C21_Witness ==
    \E c \in CallSlots :
        /\ Committed(c)
        /\ TokenRole(calls[c].req.authorization) = "gestora"
        /\ calls[c].req.body.status = "rejected"
        /\ calls[c].req.body.rejectionReason = <<"x">>

\* C22: objects are never removed from the bucket, and the objects a submission
\* stores are those of the first j selected files, in selection order, for some
\* j; j is less than the number of selected files exactly when an upload failed
\* (the warning is shown), so no file after the failing one is stored.
C22_UploadsInOrderUntilFailure ==
    [][/\ bucket \subseteq bucket'
       /\ \A u \in Users :
             LET new == {o \in bucket' \ bucket : o.owner = u}
                 files == form[u].attachments
             IN  /\ Cardinality(new) <= Len(files)
                 /\ \A i \in 1..Cardinality(new) :
                        [owner |-> u, at |-> Cardinality(bucket) + i, name |-> files[i]] \in new
                 /\ (~form[u].uploading /\ form'[u].uploading) =>
                        (Cardinality(new) < Len(files) <=> form'[u].toasts = <<"Aviso">>)]_vars

\* C22 witness: of two selected files the first is stored, the upload of the
\* second failed, and the submission goes on.
C22_Witness ==
    \E u \in Users :
        /\ form[u].uploading
        /\ form[u].attachments = <<"a.pdf", "b.pdf">>
        /\ bucket = {[owner |-> u, at |-> 1, name |-> "a.pdf"]}
        /\ form[u].toasts = <<"Aviso">>

\* The clients whose dashboard the dashboard specifications follow.
DashClients == {"g1"}

\* C23: a dashboard client starts a transition call only while none of its calls
\* is in flight, and while one is in flight its processing flag is set, which
\* disables the approve and reject buttons.
C23_OneCallInFlight ==
    [][\A u \in DashClients :
          /\ (calls'[ClientSlot(u)] # calls[ClientSlot(u)]
               /\ calls'[ClientSlot(u)].pc = "update")
              => /\ calls[ClientSlot(u)].pc = "idle"
                 /\ ~dash[u].processing
                 /\ dash'[u].processing
          /\ calls'[ClientSlot(u)].pc # "idle" =>
                 (dash'[u].processing /\ ~DecisionEnabled(dash'[u]))]_vars

\* C23 witness: a call of the manager is in flight with the dialog open.
C23_Witness ==
    \E u \in DashClients :
        /\ dash[u].processing
        /\ dash[u].selectedRequest # 0
        /\ calls[ClientSlot(u)].pc = "notify"

\* C24: when the update fails, the call returns an error response (error and
\* details, HTTP status 4xx/5xx) with no notification and no change of the
\* table; a success response is returned only with HTTP 200, by a call whose
\* update committed.
C24_UpdateFailureAnswersError ==
    [][\A c \in CallSlots :
          /\ (calls[c].pc = "update" /\ calls'[c].pc = "done")
              => /\ calls'[c].response.status \in 400..599
                 /\ ~calls'[c].response.success
                 /\ calls'[c].response.error # NULL
                 /\ calls'[c].response.details # NULL
                 /\ calls'[c].response.data = NoRow
                 /\ calls'[c].notifications = <<>>
                 /\ requestsTable' = requestsTable
          /\ (calls'[c] # calls[c] /\ calls'[c].response.success)
              => /\ calls[c].pc = "notify"
                 /\ calls'[c].response.status = 200
                 /\ calls'[c].response.data = calls[c].updatedRequest]_vars

\* C24 witness: an update of the stored request failed and the call answered
\* with the update error.
C24_Witness ==
    \E c \in CallSlots :
        /\ calls[c].pc = "done"
        /\ calls[c].response.error = "Failed to update request"
        /\ Len(requestsTable) = 1
        /\ requestsTable[1].status = "pending"

\* C25: an OPTIONS request is answered with the empty 200 response whatever its
\* Authorization header, any other method than POST returns at once, and the
\* step that receives a request changes no request and dispatches nothing; only
\* a POST goes on to the update.
C25_PreflightAndOtherMethods ==
    [][/\ \A req \in HttpRequests, now \in Times :
             /\ req.method = "OPTIONS" =>
                    /\ HandlerStart(req, now) = Returned(PreflightResponse, <<>>)
                    /\ HandlerStart(req, now).response.status = 200
                    /\ HandlerStart(req, now).response.data = NoRow
                    /\ HandlerStart(req, now).response.error = NULL
             /\ req.method # "POST" => HandlerStart(req, now).pc = "done"
       /\ \A c \in CallSlots :
             (calls[c].pc \in {"idle", "done"} /\ calls'[c] # calls[c])
             => /\ requestsTable' = requestsTable
                /\ calls'[c].notifications = <<>>
                /\ calls'[c].pc = "update" => calls'[c].req.method = "POST"]_vars

\* C25 witness: a preflight has been answered while a request is stored.
C25_Witness ==
    \E c \in CallSlots :
        /\ calls[c].pc = "done"
        /\ calls[c].response = PreflightResponse
        /\ Len(requestsTable) = 1

\* C26: a POST without an Authorization header is answered with the error
\* response and never reaches the update; a decision started from the dashboard
\* without a session sends nothing, changes nothing and shows the error toast.
C26_NoCredentialsNoMutation ==
    [][/\ \A req \in HttpRequests, now \in Times :
             (req.method = "POST" /\ req.authorization = NULL) =>
                 HandlerStart(req, now)
                     = Returned(ErrorResponse("Missing authorization header"), <<>>)
       /\ \A c \in RaceSlots :
             /\ calls'[c].pc \in {"update", "notify"} => calls'[c].req.authorization # NULL
             /\ (calls'[c] # calls[c]
                  /\ calls'[c].response.error = "Missing authorization header")
                 => /\ requestsTable' = requestsTable
                    /\ calls'[c].notifications = <<>>
                    /\ calls'[c].response.status \in 400..599
       /\ \A u \in DashClients :
             (~HasSession(u) /\ dash[u].action = NULL /\ dash'[u].toast # dash[u].toast)
             => /\ calls' = calls
                /\ requestsTable' = requestsTable
                /\ dash'[u].toast[1] \in {"Erro", "Motivo obrigatório"}
                /\ ~dash'[u].processing]_vars

\* C26 witness: an anonymous POST was answered with the error, and the signed-out
\* manager's approval ended in the error toast, the request still pending.
C26_Witness ==
    /\ calls["c2"].response.error = "Missing authorization header"
    /\ ~HasSession("g1")
    /\ dash["g1"].toast = <<"Erro", "approved">>
    /\ Len(requestsTable) = 1
    /\ requestsTable[1].status = "pending"
    /\ requestsTable[1].approved_at = NULL

\* C27: when a call dispatches its notification and no other call on the same
\* request is in flight, the decision the notification carries is the stored
\* status of the request.
C27_LastNotificationMatchesStatus ==
    [][\A c \in RaceSlots :
          (/\ calls[c].pc = "notify"
           /\ calls'[c].pc = "done"
           /\ \A o \in RaceSlots \ {c} :
                  ~(/\ calls[o].pc \in {"update", "notify"}
                    /\ calls[o].req.body.requestId = calls[c].req.body.requestId))
          => \A i \in MatchId(calls[c].req.body.requestId) :
                 requestsTable'[i].status
                     = calls'[c].notifications[Len(calls'[c].notifications)].body.action]_vars

\* C28: when reasons are typed only in the dialog of the first request, the
\* reason text is empty whenever the dialog shows another request, and no other
\* request is ever stored with a rejection reason.
C28_ReasonStaysWithItsRequest ==
    /\ \A u \in DashClients :
           dash[u].selectedRequest \notin {0, 1} => dash[u].rejectionReason = <<>>
    /\ \A i \in 1..Len(requestsTable) :
           requestsTable[i].id # 1 => requestsTable[i].rejection_reason = NoText

C30_BusyFlagsClear ==
    \A u \in Users :
        /\ dash[u].processing ~> ~dash[u].processing
        /\ form[u].uploading ~> ~form[u].uploading

\* C30 witness: the form's submission created the request and the manager's
\* rejection of it failed; both flags are clear again.
C30_Witness ==
    /\ Len(requestsTable) = 1
    /\ form["s1"].toasts = <<"Sucesso!">>
    /\ ~form["s1"].uploading
    /\ dash["g1"].toast = <<"Erro", "rejected">>
    /\ ~dash["g1"].processing

=============================================================================
